---- MODULE Spec2Model ----
(***************************************************************************)
(* State-machine model of src/azmuth.py: the EMG recording script.         *)
(*                                                                         *)
(* main() opens the serial transport and calls record_gesture() once per   *)
(* entry of GESTURES.  record_gesture() prompts the operator, clears the   *)
(* transport's input buffer, then loops for TOTAL_DURATION seconds reading *)
(* one line per iteration, parsing it, tagging it with a repetition index, *)
(* appending it to the buffers and redrawing the live plot at a limited    *)
(* rate; afterwards it writes the CSV file and the chart image.            *)
(*                                                                         *)
(* Time is an integer count of clock units, UnitsPerMs units to the        *)
(* millisecond.  The clock is time.time() measured from the start of the   *)
(* program; it is read where the code reads it and never runs backwards.   *)
(* Lines on the transport are sequences of bytes, each byte a short        *)
(* string.                                                                 *)
(***************************************************************************)
EXTENDS Integers, Sequences, FiniteSets, TLC

VARIABLES
    pc,             \* position of the program
    gi,             \* index in GESTURES of the gesture being recorded (0: none yet)
    ser,            \* the serial transport: "unopened", "open", "closed"
    fig,            \* the figure of the current session: "none", "open", "closed"
    exc,            \* "none", or "raised" while an exception propagates
    now,            \* the clock
    repetitions,    \* the configured repetition count (REPETITIONS)
    overall_start,  \* record_gesture's overall_start (NoTime: None)
    last_plot_time, \* record_gesture's last_plot_time
    current_rep,    \* record_gesture's current_rep
    timestamps,     \* record_gesture's timestamps deque
    emg1,           \* record_gesture's emg1 deque
    emg2,           \* record_gesture's emg2 deque
    rows,           \* record_gesture's rows list
    inbuf,          \* lines waiting in the transport's input buffer
    printed,        \* the message the last step of the program printed ("": none)
    ev,             \* the last step the program took
    notes,          \* repetition indices announced after the loop started, this session
    csv,            \* rows in the CSV file written for the current gesture (<<>>: none written)
    png,            \* TRUE when the chart image of the current gesture was saved
    env,            \* the environment: clock steps, session span, lines the device sends
    closes,         \* number of times main called ser.close()
    stale,          \* lines at the head of inbuf that were queued before input() returned
    arg,            \* input of the function applied in SpecFn
    res             \* its result

vars == <<pc, gi, ser, fig, exc, now, repetitions, overall_start, last_plot_time,
          current_rep, timestamps, emg1, emg2, rows, inbuf, printed, ev, notes,
          csv, png, env, closes, stale, arg, res>>

-----------------------------------------------------------------------------
(* Bounds of the model *)

\* clock units per millisecond
UnitsPerMs == 5
\* millisecond steps of the clock: the sub-second part of the clock stays within
\* this many milliseconds
MaxFineMs == 1
\* the coarse clock step, in repetitions
CoarseReps == 5
\* lines the transport's input buffer holds at most
MaxQueue == 2
\* samples a session buffers at most: the device stops sending then
MaxSamples == 2
\* length of the lines the parser is applied to in SpecFn
MaxLineLen == 5
\* number of samples fed to the sample step in SpecFn
MaxFeed == 3

-----------------------------------------------------------------------------
(* Configuration: src/azmuth.py lines 32-50 *)

DURATION_PER_REP == 3
REPETITIONS == 15
PLOT_UPDATE_INTERVAL_MS == 50
GESTURES == <<"rest", "fist", "open", "wrist_up", "wrist_down", "strong_fist">>
NG == Len(GESTURES)

Ms(n) == n * UnitsPerMs
Secs(n) == n * 1000 * UnitsPerMs
DurationUnits == Secs(DURATION_PER_REP)
TotalDuration(reps) == DurationUnits * reps
PlotInterval == Ms(PLOT_UPDATE_INTERVAL_MS)
NoTime == -1

Min(a, b) == IF a <= b THEN a ELSE b

-----------------------------------------------------------------------------
(* Bytes, text and the parser *)

Digits == {"0", "1", "2", "3", "4", "5", "6", "7", "8", "9"}
Whitespace == {" ", "LF", "CR", "TAB"}
\* a byte that is no valid text
BadByte == "xFF"

DigitVal(c) ==
    CASE c = "0" -> 0 [] c = "1" -> 1 [] c = "2" -> 2 [] c = "3" -> 3 [] c = "4" -> 4
      [] c = "5" -> 5 [] c = "6" -> 6 [] c = "7" -> 7 [] c = "8" -> 8 [] c = "9" -> 9

\* bytes.decode(errors="ignore"): undecodable bytes are dropped
RECURSIVE Decode(_)
Decode(b) ==
    IF b = <<>> THEN <<>>
    ELSE IF Head(b) = BadByte THEN Decode(Tail(b))
    ELSE <<Head(b)>> \o Decode(Tail(b))

RECURSIVE LStrip(_)
LStrip(s) ==
    IF s # <<>> /\ Head(s) \in Whitespace THEN LStrip(Tail(s)) ELSE s

RECURSIVE RStrip(_)
RStrip(s) ==
    IF s # <<>> /\ s[Len(s)] \in Whitespace THEN RStrip(SubSeq(s, 1, Len(s) - 1)) ELSE s

\* str.strip()
Strip(s) == RStrip(LStrip(s))

\* int() of a run of digits
RECURSIVE ToInt(_)
ToInt(run) ==
    IF run = <<>> THEN 0
    ELSE 10 * ToInt(SubSeq(run, 1, Len(run) - 1)) + DigitVal(run[Len(run)])

\* re.findall(r"\d+", line): the maximal runs of digits, left to right.
\* FindAll(s, cur, acc): cur is the run being read, acc the runs already closed.
RECURSIVE FindAll(_, _, _)
FindAll(s, cur, acc) ==
    IF s = <<>> THEN (IF cur = <<>> THEN acc ELSE Append(acc, cur))
    ELSE IF Head(s) \in Digits THEN FindAll(Tail(s), Append(cur, Head(s)), acc)
    ELSE FindAll(Tail(s), <<>>, IF cur = <<>> THEN acc ELSE Append(acc, cur))

None == <<>>

parse_dual_channel(line) ==
    LET nums == FindAll(line, <<>>, <<>>)
    IN  IF Len(nums) >= 2 THEN <<ToInt(nums[1]), ToInt(nums[2])>> ELSE None

\* adc_to_volt(adc_value): (adc_value / 4095) * 3.3 as the exact fraction <<num, den>>.
\* The function's try/except (lines 80-82) lets no exception out.
adc_to_volt(adc_value) == <<adc_value * 33, 4095 * 10>>

-----------------------------------------------------------------------------
(* The computations of the recording loop *)

\* the loop also waits for a first sample
LoopCond_UntilSample(t) ==
    (t - overall_start) < TotalDuration(repetitions) \/ Len(rows) = 0

\* line 138: the loop condition, at clock reading t
LoopCond(t) == (t - overall_start) < TotalDuration(repetitions)

\* the repetition index without the clamp of lines 152-153
rep_idx_unclamped(t, reps) == (t \div DurationUnits) + 1

\* lines 151-153: the repetition index of elapsed time t
rep_idx(t, reps) ==
    LET r == (t \div DurationUnits) + 1
    IN  IF r > reps THEN reps ELSE r

\* round(t * 1000) of Python: to the nearest millisecond, halves to the even one
RoundMs(t) ==
    LET q == t \div UnitsPerMs
        r == t % UnitsPerMs
    IN  IF 2 * r < UnitsPerMs THEN q
        ELSE IF 2 * r > UnitsPerMs THEN q + 1
        ELSE IF q % 2 = 0 THEN q ELSE q + 1

\* elapsed milliseconds rounded to the nearest, not truncated
ms_rounded(t) == RoundMs(t)

\* line 164: int(t * 1000), truncation to whole milliseconds
ms(t) == t \div UnitsPerMs

\* line 165: the CSV row of a sample
Row(t, ch1, ch2, rep) == <<ms(t), ch1, adc_to_volt(ch1), ch2, adc_to_volt(ch2), rep>>

\* the sample step without the update of current_rep at line 157
SampleStep_StaleRep(b, t, ch, reps) ==
    LET r == IF (t \div DurationUnits) + 1 > reps THEN reps ELSE (t \div DurationUnits) + 1
    IN  [current_rep |-> b.current_rep,
         notes       |-> IF r # b.current_rep THEN Append(b.notes, r) ELSE b.notes,
         timestamps  |-> Append(b.timestamps, t),
         emg1        |-> Append(b.emg1, ch[1]),
         emg2        |-> Append(b.emg2, ch[2]),
         rows        |-> Append(b.rows, <<t \div UnitsPerMs, ch[1], adc_to_volt(ch[1]),
                                         ch[2], adc_to_volt(ch[2]), r>>)]

\* the sample step with the row put in front of the rows, not after them
SampleStep_RowInFront(b, t, ch, reps) ==
    LET r == IF (t \div DurationUnits) + 1 > reps THEN reps ELSE (t \div DurationUnits) + 1
    IN  [current_rep |-> r,
         notes       |-> IF r # b.current_rep THEN Append(b.notes, r) ELSE b.notes,
         timestamps  |-> Append(b.timestamps, t),
         emg1        |-> Append(b.emg1, ch[1]),
         emg2        |-> Append(b.emg2, ch[2]),
         rows        |-> <<<<t \div UnitsPerMs, ch[1], adc_to_volt(ch[1]),
                             ch[2], adc_to_volt(ch[2]), r>>>> \o b.rows]

\* lines 149-165: what a parsed reading <<ch1, ch2>> taken at elapsed time t does
\* to the buffers, to current_rep and to the repetition announcements.
\* b is the record of record_gesture's locals.
SampleStep(b, t, ch, reps) ==
    LET r == rep_idx(t, reps)
    IN  [current_rep |-> IF r # b.current_rep THEN r ELSE b.current_rep,
         notes       |-> IF r # b.current_rep THEN Append(b.notes, r) ELSE b.notes,
         timestamps  |-> Append(b.timestamps, t),
         emg1        |-> Append(b.emg1, ch[1]),
         emg2        |-> Append(b.emg2, ch[2]),
         rows        |-> Append(b.rows, Row(t, ch[1], ch[2], r))]

\* the plot is redrawn in every iteration
PlotDue_Always(t) == t >= last_plot_time

\* line 169: the plot is due at clock reading t
PlotDue(t) == t - last_plot_time >= PlotInterval

-----------------------------------------------------------------------------
(* The environment: the clock and the device *)

\* the lines the device sends (bytes, newline included)
LBlank == <<" ", BadByte, "CR", "LF">>
LAbc == <<"a", "b", "c", "LF">>
LGood == <<"1", "0", "0", ",", "2", "0", "0", "LF">>
LLabel == <<"E", "M", "G", "1", ":", "1", "0", " ", "E", "M", "G", "2", ":", "2", "0",
            " ", "e", "x", "t", "r", "a", ":", "3", "0", "LF">>
MainLines == {LBlank, LAbc, LGood, LLabel}

\* what a clock read may find the clock advanced by: nothing, or CoarseReps
\* repetitions
CoarseStep == CoarseReps * DurationUnits
MainSteps == {0, CoarseStep}
\* the time the sessions of a run take: whole coarse steps covering the total duration
MainSpan == ((TotalDuration(REPETITIONS) + CoarseStep - 1) \div CoarseStep) * CoarseStep

MainEnv == [steps |-> MainSteps, span |-> MainSpan, lines |-> MainLines]

\* the clock of session gi is read up to this time
Deadline == Secs(2) + gi * env.span + Ms(MaxFineMs)

\* a clock read may find the clock advanced by d
CanAdvance(d) ==
    /\ now + d <= Deadline
    /\ (0 < d /\ d < Ms(10)) => (now % Secs(1)) + d <= Ms(MaxFineMs)

CanRead(d) == d \in env.steps /\ CanAdvance(d)

\* a session starts at a time that lets it run its total duration
CanStart(d) == CanRead(d) /\ now + d + TotalDuration(repetitions) <= Deadline

-----------------------------------------------------------------------------
(* main(): lines 229-250 *)

\* no function is applied in a run of the program
NoArg == [fn |-> "", ts |-> <<>>, reps |-> 0, line |-> <<>>]

Init ==
    /\ pc = "open"
    /\ gi = 0
    /\ ser = "unopened"
    /\ fig = "none"
    /\ exc = "none"
    /\ now = 0
    /\ repetitions = REPETITIONS
    /\ overall_start = NoTime
    /\ last_plot_time = 0
    /\ current_rep = 1
    /\ timestamps = <<>>
    /\ emg1 = <<>>
    /\ emg2 = <<>>
    /\ rows = <<>>
    /\ inbuf = <<>>
    /\ printed = "connecting"
    /\ ev = "init"
    /\ notes = <<>>
    /\ csv = <<>>
    /\ png = FALSE
    /\ env = MainEnv
    /\ closes = 0
    /\ stale = 0
    /\ arg = NoArg
    /\ res = <<>>

session == <<overall_start, last_plot_time, current_rep, timestamps, emg1, emg2, rows, notes>>
files == <<csv, png>>
fixed == <<repetitions, env, arg, res>>

\* lines 232-235: serial.Serial(...) succeeds; time.sleep(2)
OpenOk ==
    /\ pc = "open"
    /\ ser' = "open"
    /\ now' = now + Secs(2)
    /\ printed' = "connected"
    /\ ev' = "open"
    /\ pc' = "for"
    /\ UNCHANGED <<gi, fig, exc, session, inbuf, files, fixed, closes, stale>>

\* the failure to open is reported and the for loop is entered all the same
OpenFail_GoesOn ==
    /\ pc = "open"
    /\ printed' = "open_failed"
    /\ ev' = "open_fault"
    /\ pc' = "for"
    /\ UNCHANGED <<gi, ser, fig, exc, now, session, inbuf, files, fixed, closes, stale>>

\* lines 236-238: serial.Serial(...) raises; main returns
OpenFail ==
    /\ pc = "open"
    /\ printed' = "open_failed"
    /\ ev' = "open_fault"
    /\ pc' = "done"
    /\ UNCHANGED <<gi, ser, fig, exc, now, session, inbuf, files, fixed, closes, stale>>

\* the buffers are made once and kept from one gesture to the next
ForNext_KeepsBuffers ==
    /\ pc = "for"
    /\ gi < NG
    /\ gi' = gi + 1
    /\ fig' = "open"
    /\ overall_start' = NoTime
    /\ last_plot_time' = 0
    /\ current_rep' = 1
    /\ printed' = "gesture"
    /\ csv' = <<>>
    /\ png' = FALSE
    /\ ev' = "call"
    /\ pc' = "prompt"
    /\ stale' = 0
    /\ UNCHANGED <<ser, exc, now, timestamps, emg1, emg2, rows, notes, inbuf, fixed, closes>>

\* lines 241-242 and 96-124: the for loop calls record_gesture for the next
\* gesture, which creates empty buffers and the figure
ForNext ==
    /\ pc = "for"
    /\ gi < NG
    /\ gi' = gi + 1
    /\ timestamps' = <<>>
    /\ emg1' = <<>>
    /\ emg2' = <<>>
    /\ rows' = <<>>
    /\ notes' = <<>>
    /\ fig' = "open"
    /\ overall_start' = NoTime
    /\ last_plot_time' = 0
    /\ current_rep' = 1
    /\ printed' = "gesture"
    /\ csv' = <<>>
    /\ png' = FALSE
    /\ ev' = "call"
    /\ pc' = "prompt"
    /\ stale' = 0
    /\ UNCHANGED <<ser, exc, now, inbuf, fixed, closes>>

\* line 244: the catalog is exhausted
ForDone ==
    /\ pc = "for"
    /\ gi = NG
    /\ printed' = "all_complete"
    /\ ev' = "for_done"
    /\ pc' = "close"
    /\ UNCHANGED <<gi, ser, fig, exc, now, session, inbuf, files, fixed, closes, stale>>

\* lines 246-248: ser.close() succeeds
CloseOk ==
    /\ pc = "close"
    /\ ser' = "closed"
    /\ closes' = closes + 1
    /\ ev' = "close"
    /\ pc' = "done"
    /\ printed' = ""
    /\ UNCHANGED <<gi, fig, exc, now, session, inbuf, files, fixed, stale>>

\* lines 249-250: ser.close() raises, and the exception is dropped
CloseFault ==
    /\ pc = "close"
    /\ closes' = closes + 1
    /\ ev' = "close_fault"
    /\ pc' = "done"
    /\ printed' = ""
    /\ UNCHANGED <<gi, ser, fig, exc, now, session, inbuf, files, fixed, stale>>

\* the device sends a line.  The program looks at the input buffer only when
\* it clears it and when it polls it, so a line sent at any other time is in
\* the input buffer at the next of these steps, as if it was sent right before.
Arrive ==
    \E l \in env.lines :
        /\ ser = "open"
        /\ pc \in {"prompt", "reset", "poll"}
        /\ Len(inbuf) < MaxQueue
        /\ Len(rows) + Len(inbuf) < MaxSamples
        /\ inbuf' = Append(inbuf, l)
        /\ UNCHANGED <<pc, gi, ser, fig, exc, now, session, printed, ev, files, fixed, closes, stale>>

-----------------------------------------------------------------------------
(* record_gesture(): lines 126-226 *)

\* lines 128-129: input() returns
PromptOk ==
    /\ pc = "prompt"
    /\ printed' = "starting"
    /\ ev' = "ready"
    /\ pc' = "reset"
    /\ stale' = Len(inbuf)
    /\ UNCHANGED <<gi, ser, fig, exc, now, session, inbuf, files, fixed, closes>>

\* line 128: input() raises (end of input); the exception leaves the outer try
PromptFault ==
    /\ pc = "prompt"
    /\ exc' = "raised"
    /\ ev' = "prompt_fault"
    /\ pc' = "finally"
    /\ printed' = ""
    /\ UNCHANGED <<gi, ser, fig, now, session, inbuf, files, fixed, closes, stale>>

\* the start time is taken without clearing the input buffer
ResetOk_KeepsQueue ==
    \E d \in env.steps :
        /\ pc = "reset"
        /\ CanStart(d)
        /\ now' = now + d
        /\ overall_start' = now'
        /\ last_plot_time' = 0
        /\ current_rep' = 1
        /\ printed' = "rep"
        /\ ev' = "start"
        /\ pc' = "while"
        /\ UNCHANGED <<gi, ser, fig, exc, timestamps, emg1, emg2, rows, notes, inbuf, files,
                       fixed, closes, stale>>

\* lines 130-135: the input buffer is cleared, the start time is taken
ResetOk ==
    \E d \in env.steps :
        /\ pc = "reset"
        /\ CanStart(d)
        /\ inbuf' = <<>>
        /\ stale' = 0
        /\ now' = now + d
        /\ overall_start' = now'
        /\ last_plot_time' = 0
        /\ current_rep' = 1
        /\ printed' = "rep"
        /\ ev' = "start"
        /\ pc' = "while"
        /\ UNCHANGED <<gi, ser, fig, exc, timestamps, emg1, emg2, rows, notes, files, fixed,
                       closes>>

\* line 130: ser.reset_input_buffer() raises; the exception leaves the outer try
ResetFault ==
    /\ pc = "reset"
    /\ exc' = "raised"
    /\ ev' = "reset_fault"
    /\ pc' = "finally"
    /\ printed' = ""
    /\ UNCHANGED <<gi, ser, fig, now, session, inbuf, files, fixed, closes, stale>>

\* line 138: the while condition
LoopTest ==
    \E d \in env.steps :
        /\ pc = "while"
        /\ CanRead(d)
        /\ now' = now + d
        /\ ev' = "test"
        /\ pc' = IF LoopCond(now') THEN "poll" ELSE "save"
        /\ printed' = ""
        /\ UNCHANGED <<gi, ser, fig, exc, session, inbuf, files, fixed, closes, stale>>

\* record_gesture's locals that a sample changes
Locals ==
    [current_rep |-> current_rep, notes |-> notes, timestamps |-> timestamps,
     emg1 |-> emg1, emg2 |-> emg2, rows |-> rows]

\* line 141: the text of the line at the head of the input buffer
raw_line == Strip(Decode(Head(inbuf)))

\* line 141: readline() takes the line at the head of the input buffer, which
\* may be one that was queued before input() returned
StaleAfterRead == IF stale > 0 THEN stale - 1 ELSE 0

\* line 140: ser.in_waiting is 0
PollNone ==
    /\ pc = "poll"
    /\ inbuf = <<>>
    /\ ev' = "no_data"
    /\ pc' = "plot"
    /\ printed' = ""
    /\ UNCHANGED <<gi, ser, fig, exc, now, session, inbuf, files, fixed, closes, stale>>

\* the fault is not caught in the loop: it leaves the outer try
ReadFault_Propagates ==
    /\ pc = "poll"
    /\ exc' = "raised"
    /\ ev' = "read_fault"
    /\ pc' = "finally"
    /\ printed' = ""
    /\ UNCHANGED <<gi, ser, fig, now, session, inbuf, files, fixed, closes, stale>>

\* the fault is raised between line 162 and line 165 (adc_to_volt without its
\* own try): the deques hold the sample, the rows do not
ReadFault_TornSample ==
    /\ pc = "poll"
    /\ IF inbuf # <<>> /\ raw_line # <<>> /\ parse_dual_channel(raw_line) # None
       THEN /\ timestamps' = Append(timestamps, now - overall_start)
            /\ emg1' = Append(emg1, parse_dual_channel(raw_line)[1])
            /\ emg2' = Append(emg2, parse_dual_channel(raw_line)[2])
            /\ inbuf' = Tail(inbuf)
            /\ stale' = StaleAfterRead
       ELSE UNCHANGED <<timestamps, emg1, emg2, inbuf, stale>>
    /\ printed' = "error"
    /\ ev' = "read_fault"
    /\ pc' = "while"
    /\ UNCHANGED <<gi, ser, fig, exc, now, overall_start, last_plot_time, current_rep, rows,
                   notes, files, fixed, closes>>

\* lines 140-165 raise (the transport fails while polling or reading; the line
\* being read may be lost): lines 191-192 catch and report it
ReadFault ==
    /\ pc = "poll"
    /\ inbuf' \in {inbuf} \cup (IF inbuf = <<>> THEN {} ELSE {Tail(inbuf)})
    /\ stale' = IF inbuf' = inbuf THEN stale ELSE StaleAfterRead
    /\ printed' = "error"
    /\ ev' = "read_fault"
    /\ pc' = "while"
    /\ UNCHANGED <<gi, ser, fig, exc, now, session, files, fixed, closes>>

\* lines 141-143: the line read is empty after strip()
ReadBlank ==
    /\ pc = "poll"
    /\ inbuf # <<>>
    /\ raw_line = <<>>
    /\ inbuf' = Tail(inbuf)
    /\ stale' = StaleAfterRead
    /\ ev' = "blank"
    /\ pc' = "while"
    /\ printed' = ""
    /\ UNCHANGED <<gi, ser, fig, exc, now, session, files, fixed, closes>>

\* the line that does not parse is stored as a sample of zeros
ReadUnparsable_ZeroSample ==
    /\ pc = "poll"
    /\ inbuf # <<>>
    /\ raw_line # <<>>
    /\ parse_dual_channel(raw_line) = None
    /\ inbuf' = Tail(inbuf)
    /\ timestamps' = Append(timestamps, now - overall_start)
    /\ emg1' = Append(emg1, 0)
    /\ emg2' = Append(emg2, 0)
    /\ rows' = Append(rows, Row(now - overall_start, 0, 0, current_rep))
    /\ stale' = StaleAfterRead
    /\ ev' = "unparsable"
    /\ pc' = "while"
    /\ printed' = ""
    /\ UNCHANGED <<gi, ser, fig, exc, now, overall_start, last_plot_time, current_rep,
                   notes, files, fixed, closes>>

\* lines 144-147: the line read does not parse
ReadUnparsable ==
    /\ pc = "poll"
    /\ inbuf # <<>>
    /\ raw_line # <<>>
    /\ parse_dual_channel(raw_line) = None
    /\ inbuf' = Tail(inbuf)
    /\ stale' = StaleAfterRead
    /\ ev' = "unparsable"
    /\ pc' = "while"
    /\ printed' = ""
    /\ UNCHANGED <<gi, ser, fig, exc, now, session, files, fixed, closes>>

\* lines 144-165: the line read parses; the sample is tagged and appended
ReadSample ==
    \E d \in env.steps :
        /\ pc = "poll"
        /\ inbuf # <<>>
        /\ raw_line # <<>>
        /\ parse_dual_channel(raw_line) # None
        /\ CanRead(d)
        /\ now' = now + d
        /\ LET b == SampleStep(Locals, now' - overall_start, parse_dual_channel(raw_line),
                                repetitions)
           IN  /\ current_rep' = b.current_rep
               /\ notes' = b.notes
               /\ printed' = IF b.notes # notes THEN "rep" ELSE ""
               /\ timestamps' = b.timestamps
               /\ emg1' = b.emg1
               /\ emg2' = b.emg2
               /\ rows' = b.rows
        /\ inbuf' = Tail(inbuf)
        /\ stale' = StaleAfterRead
        /\ ev' = "sample"
        /\ pc' = "plot"
        /\ UNCHANGED <<gi, ser, fig, exc, overall_start, last_plot_time, files, fixed, closes>>

\* lines 168-169: the plot is not due
PlotSkip ==
    \E d \in env.steps :
        /\ pc = "plot"
        /\ CanRead(d)
        /\ now' = now + d
        /\ ~PlotDue(now')
        /\ ev' = "plot_skip"
        /\ pc' = "sleep"
        /\ printed' = ""
        /\ UNCHANGED <<gi, ser, fig, exc, session, inbuf, files, fixed, closes, stale>>

\* lines 168-186: the plot is due and is redrawn
PlotDraw ==
    \E d \in env.steps :
        /\ pc = "plot"
        /\ CanRead(d)
        /\ now' = now + d
        /\ PlotDue(now')
        /\ last_plot_time' = now'
        /\ ev' = "draw"
        /\ pc' = "sleep"
        /\ printed' = ""
        /\ UNCHANGED <<gi, ser, fig, exc, overall_start, current_rep, timestamps, emg1, emg2,
                       rows, notes, inbuf, files, fixed, closes, stale>>

\* lines 170-185 raise (the rendering surface fails): lines 191-192 catch and
\* report it; last_plot_time is not updated and the sleep is skipped
PlotFault ==
    \E d \in env.steps :
        /\ pc = "plot"
        /\ CanRead(d)
        /\ now' = now + d
        /\ PlotDue(now')
        /\ printed' = "error"
        /\ ev' = "draw_fault"
        /\ pc' = "while"
        /\ UNCHANGED <<gi, ser, fig, exc, session, inbuf, files, fixed, closes, stale>>

\* line 189: time.sleep(0.001) takes a millisecond, or a clock step longer than that
SleepSteps == {Ms(1)} \cup {d \in env.steps : d >= Ms(1)}

Sleep ==
    \E d \in SleepSteps :
        /\ pc = "sleep"
        /\ CanAdvance(d)
        /\ now' = now + d
        /\ ev' = "sleep"
        /\ pc' = "while"
        /\ printed' = ""
        /\ UNCHANGED <<gi, ser, fig, exc, session, inbuf, files, fixed, closes, stale>>

\* lines 195-201: the loop is over; with no rows only the warning is printed
Save ==
    /\ pc = "save"
    /\ printed' = IF Len(rows) = 0 THEN "no_data" ELSE "saving"
    /\ ev' = "save"
    /\ pc' = IF Len(rows) = 0 THEN "finally" ELSE "csv"
    /\ UNCHANGED <<gi, ser, fig, exc, now, session, inbuf, files, fixed, closes, stale>>

\* lines 203-206: the CSV file is written
CsvOk ==
    /\ pc = "csv"
    /\ csv' = rows
    /\ printed' = "saved_csv"
    /\ ev' = "csv"
    /\ pc' = "chart"
    /\ UNCHANGED <<gi, ser, fig, exc, now, session, inbuf, png, fixed, closes, stale>>

\* line 205: df.to_csv() raises; the exception leaves the outer try
CsvFault ==
    /\ pc = "csv"
    /\ exc' = "raised"
    /\ ev' = "csv_fault"
    /\ pc' = "finally"
    /\ printed' = ""
    /\ UNCHANGED <<gi, ser, fig, now, session, inbuf, files, fixed, closes, stale>>

\* lines 210-222: the final chart is drawn and saved
ChartOk ==
    /\ pc = "chart"
    /\ png' = (Len(timestamps) > 0)
    /\ printed' = IF Len(timestamps) > 0 THEN "saved_plot" ELSE ""
    /\ ev' = "chart"
    /\ pc' = "finally"
    /\ UNCHANGED <<gi, ser, fig, exc, now, session, inbuf, csv, fixed, closes, stale>>

\* line 221: fig.savefig() raises; the exception leaves the outer try
ChartFault ==
    /\ pc = "chart"
    /\ Len(timestamps) > 0
    /\ exc' = "raised"
    /\ ev' = "chart_fault"
    /\ pc' = "finally"
    /\ printed' = ""
    /\ UNCHANGED <<gi, ser, fig, now, session, inbuf, files, fixed, closes, stale>>

\* an exception that leaves record_gesture ends the run past main's finally
Finally_SkipsClose ==
    /\ pc = "finally"
    /\ fig' = "closed"
    /\ ev' = "finally"
    /\ pc' = IF exc # "none" THEN "done" ELSE "for"
    /\ printed' = ""
    /\ UNCHANGED <<gi, ser, exc, now, session, inbuf, files, fixed, closes, stale>>

\* lines 224-226: the figure is closed; an exception goes on to main's finally
Finally ==
    /\ pc = "finally"
    /\ fig' = "closed"
    /\ ev' = "finally"
    /\ pc' = IF exc # "none" THEN "close" ELSE "for"
    /\ printed' = ""
    /\ UNCHANGED <<gi, ser, exc, now, session, inbuf, files, fixed, closes, stale>>

-----------------------------------------------------------------------------

Next ==
    \/ OpenOk \/ OpenFail \/ ForNext \/ ForDone \/ CloseOk \/ CloseFault
    \/ PromptOk \/ PromptFault \/ ResetOk \/ ResetFault
    \/ LoopTest \/ PollNone \/ ReadFault \/ ReadBlank \/ ReadUnparsable \/ ReadSample
    \/ PlotSkip \/ PlotDraw \/ PlotFault \/ Sleep
    \/ Save \/ CsvOk \/ CsvFault \/ ChartOk \/ ChartFault \/ Finally
    \/ Arrive

Spec == Init /\ [][Next]_vars

-----------------------------------------------------------------------------
(* The parser and the sample step applied to inputs drawn from bounded sets *)

\* record_gesture's locals before the first sample: lines 100-103 and 134
EmptyLocals ==
    [current_rep |-> 1, notes |-> <<>>, timestamps |-> <<>>,
     emg1 |-> <<>>, emg2 |-> <<>>, rows |-> <<>>]

\* the loop's sample steps for parsed readings taken at the elapsed times ts
RECURSIVE Feed(_, _, _)
Feed(b, ts, reps) ==
    IF ts = <<>> THEN b
    ELSE Feed(SampleStep(b, Head(ts), parse_dual_channel(Strip(Decode(LGood))), reps),
              Tail(ts), reps)

\* sequences over S of length at most n
RECURSIVE SeqsUpTo(_, _)
SeqsUpTo(S, n) ==
    IF n = 0 THEN {<<>>}
    ELSE LET shorter == SeqsUpTo(S, n - 1)
         IN  shorter \cup {Append(q, x) : q \in shorter, x \in S}

NonDecreasing(q) == \A i \in 1..Len(q) : \A j \in i..Len(q) : q[i] <= q[j]

\* elapsed times at, just after and just before every repetition boundary, up
\* to one repetition beyond the total duration
BoundaryTimes ==
    {k * DurationUnits + o : k \in 0..(REPETITIONS + 1),
                             o \in {0, (3 * UnitsPerMs) \div 5, DurationUnits - 1}}

\* the elapsed times 0.5 s, 3.5 s and 5.9 s, and others around two repetitions
ScenarioTimes ==
    {Ms(0), Ms(500), Ms(2999), Ms(3000), Ms(3500), Ms(5900), Ms(6000), Ms(9000)}

\* the configured repetition counts tried
RepsTried == {2, REPETITIONS}

FeedInputs ==
    {q \in SeqsUpTo(BoundaryTimes, 2) \cup SeqsUpTo(ScenarioTimes, MaxFeed) :
        NonDecreasing(q)}

ParseAlphabet == {"0", "7", "a", ","}
LabelText == Strip(Decode(LLabel))
ParseInputs ==
    SeqsUpTo(ParseAlphabet, MaxLineLen)
        \cup {LabelText, Strip(Decode(LAbc)), Strip(Decode(LGood))}

InitFn ==
    /\ pc = "fn"
    /\ gi = 0
    /\ ser = "unopened"
    /\ fig = "none"
    /\ exc = "none"
    /\ now = 0
    /\ repetitions = REPETITIONS
    /\ overall_start = NoTime
    /\ last_plot_time = 0
    /\ current_rep = 1
    /\ timestamps = <<>>
    /\ emg1 = <<>>
    /\ emg2 = <<>>
    /\ rows = <<>>
    /\ inbuf = <<>>
    /\ printed = ""
    /\ ev = "init"
    /\ notes = <<>>
    /\ csv = <<>>
    /\ png = FALSE
    /\ env = MainEnv
    /\ closes = 0
    /\ stale = 0
    /\ res = <<>>
    /\ \/ \E q \in FeedInputs, n \in RepsTried :
            arg = [fn |-> "feed", ts |-> q, reps |-> n, line |-> <<>>]
       \/ \E l \in ParseInputs :
            arg = [fn |-> "parse", ts |-> <<>>, reps |-> 0, line |-> l]

program == <<pc, gi, ser, fig, exc, now, repetitions, session, inbuf, printed, ev, files, env,
             closes, stale>>

\* the sample steps of a session that reads parsable lines at the times arg.ts
ApplyFeed ==
    /\ arg.fn = "feed"
    /\ res = <<>>
    /\ res' = <<Feed(EmptyLocals, arg.ts, arg.reps)>>
    /\ UNCHANGED <<program, arg>>

\* the parser on the line arg.line
ApplyParse ==
    /\ arg.fn = "parse"
    /\ res = <<>>
    /\ res' = <<parse_dual_channel(arg.line)>>
    /\ UNCHANGED <<program, arg>>

NextFn == ApplyFeed \/ ApplyParse

SpecFn == InitFn /\ [][NextFn]_vars

-----------------------------------------------------------------------------
(* The run with an external interrupt: KeyboardInterrupt is raised in the      *)
(* statement the program is executing.  It is no Exception, so the except      *)
(* clauses of lines 191, 236 and 249 let it pass; only the finally clauses     *)
(* of lines 224 and 246 run on its way out.                                    *)

\* lines 232-235: serial.Serial(...) has returned and the interrupt arrives in
\* time.sleep(2), before the try of line 240 is entered: it ends main
InterruptConnecting ==
    /\ pc = "open"
    /\ ser' = "open"
    /\ exc' = "interrupt"
    /\ ev' = "interrupt"
    /\ pc' = "done"
    /\ printed' = ""
    /\ UNCHANGED <<gi, fig, now, session, inbuf, files, fixed, closes, stale>>

\* lines 241-244 and 96-106: the interrupt arrives in the for loop or in
\* record_gesture before the figure is created: main's finally is next
InterruptFor ==
    /\ pc = "for"
    /\ exc' = "interrupt"
    /\ ev' = "interrupt"
    /\ pc' = "close"
    /\ printed' = ""
    /\ UNCHANGED <<gi, ser, fig, now, session, inbuf, files, fixed, closes, stale>>

\* lines 107-124: record_gesture has created the figure and the interrupt
\* arrives before the try of line 126 is entered: main's finally is next
InterruptSetup ==
    /\ pc = "for"
    /\ gi < NG
    /\ gi' = gi + 1
    /\ timestamps' = <<>>
    /\ emg1' = <<>>
    /\ emg2' = <<>>
    /\ rows' = <<>>
    /\ notes' = <<>>
    /\ fig' = "open"
    /\ overall_start' = NoTime
    /\ last_plot_time' = 0
    /\ current_rep' = 1
    /\ csv' = <<>>
    /\ png' = FALSE
    /\ stale' = 0
    /\ exc' = "interrupt"
    /\ ev' = "interrupt"
    /\ pc' = "close"
    /\ printed' = "gesture"
    /\ UNCHANGED <<ser, now, inbuf, fixed, closes>>

\* lines 126-222: the interrupt arrives inside record_gesture's try, in the
\* loop or outside it: record_gesture's finally is next
InterruptSession ==
    /\ pc \in {"prompt", "reset", "while", "poll", "plot", "sleep", "save", "csv", "chart"}
    /\ exc' = "interrupt"
    /\ ev' = "interrupt"
    /\ pc' = "finally"
    /\ printed' = ""
    /\ UNCHANGED <<gi, ser, fig, now, session, inbuf, files, fixed, closes, stale>>

\* line 225: the interrupt arrives in plt.ioff(), before plt.close(fig)
InterruptFinally ==
    /\ pc = "finally"
    /\ exc # "interrupt"
    /\ exc' = "interrupt"
    /\ ev' = "interrupt"
    /\ pc' = "close"
    /\ printed' = ""
    /\ UNCHANGED <<gi, ser, fig, now, session, inbuf, files, fixed, closes, stale>>

\* lines 247-248: the interrupt arrives in main's finally before ser.close()
\* is called
InterruptClose ==
    /\ pc = "close"
    /\ exc # "interrupt"
    /\ exc' = "interrupt"
    /\ ev' = "interrupt"
    /\ pc' = "done"
    /\ printed' = ""
    /\ UNCHANGED <<gi, ser, fig, now, session, inbuf, files, fixed, closes, stale>>

NextInt ==
    \/ Next
    \/ InterruptConnecting \/ InterruptFor \/ InterruptSetup \/ InterruptSession
    \/ InterruptFinally \/ InterruptClose

SpecInt == Init /\ [][NextInt]_vars

-----------------------------------------------------------------------------
(* Properties of the repetition index, the announcements and the rows *)

Fed == arg.fn = "feed" /\ Len(res) = 1
FedReps == [i \in 1..Len(res[1].rows) |-> res[1].rows[i][6]]

\* C5: every sample carries repetition min(floor(elapsed / duration_per_rep) + 1,
\* repetitions): it is in 1..repetitions for every elapsed >= 0, also at or
\* beyond the total duration, non-decreasing in elapsed, and k + 1 at elapsed
\* k * duration_per_rep for k in 1..repetitions-1.
C5_RepetitionIndex ==
    Fed =>
        /\ Len(res[1].rows) = Len(arg.ts)
        /\ \A i \in 1..Len(arg.ts) :
            /\ FedReps[i] = Min((arg.ts[i] \div DurationUnits) + 1, arg.reps)
            /\ FedReps[i] \in 1..arg.reps
            /\ \A j \in i..Len(arg.ts) : FedReps[i] <= FedReps[j]
            /\ \A k \in 1..(arg.reps - 1) :
                arg.ts[i] = k * DurationUnits => FedReps[i] = k + 1

\* a sample at or beyond the total duration after one at an inner boundary
C5_Witness ==
    /\ Fed
    /\ arg.reps = REPETITIONS
    /\ Len(arg.ts) = 2
    /\ arg.ts[1] = 7 * DurationUnits
    /\ arg.ts[2] > TotalDuration(arg.reps)

\* the announcements that the repetition indices q call for, p being the
\* index before them
RECURSIVE Transitions(_, _)
Transitions(q, p) ==
    IF q = <<>> THEN <<>>
    ELSE IF Head(q) = p THEN Transitions(Tail(q), p)
    ELSE <<Head(q)>> \o Transitions(Tail(q), Head(q))

ScenarioFeed == <<Ms(500), Ms(3500), Ms(5900)>>

\* C6: a repetition change is announced exactly when a sample's repetition
\* differs from that of the sample before it (1 before the first): once per
\* transition, never twice for one index, in non-decreasing order.  With 3 s
\* per repetition, 2 repetitions and samples at 0.5 s, 3.5 s and 5.9 s the
\* repetitions are 1, 2, 2 and the one announcement, of 2, comes with the
\* second sample.
C6_RepetitionAnnouncements ==
    Fed =>
        /\ res[1].notes = Transitions(FedReps, 1)
        /\ \A i \in 1..Len(res[1].notes) : \A j \in (i + 1)..Len(res[1].notes) :
            res[1].notes[i] < res[1].notes[j]
        /\ res[1].current_rep = IF FedReps = <<>> THEN 1 ELSE FedReps[Len(FedReps)]
        /\ (arg.ts = ScenarioFeed /\ arg.reps = 2) =>
            /\ FedReps = <<1, 2, 2>>
            /\ res[1].notes = <<2>>
            /\ Feed(EmptyLocals, SubSeq(arg.ts, 1, 1), arg.reps).notes = <<>>
            /\ Feed(EmptyLocals, SubSeq(arg.ts, 1, 2), arg.reps).notes = <<2>>

C6_Witness ==
    /\ Fed
    /\ arg.ts = ScenarioFeed
    /\ arg.reps = 2
    /\ res[1].notes = <<2>>

-----------------------------------------------------------------------------
(* Properties of the parser *)

Parsed == arg.fn = "parse" /\ Len(res) = 1

\* line[i..j] is a maximal run of digits
IsRun(line, i, j) ==
    /\ i <= j
    /\ \A k \in i..j : line[k] \in Digits
    /\ i = 1 \/ line[i - 1] \notin Digits
    /\ j = Len(line) \/ line[j + 1] \notin Digits

RunsOf(line) == {r \in (1..Len(line)) \X (1..Len(line)) : IsRun(line, r[1], r[2])}

RECURSIVE Pow10(_)
Pow10(n) == IF n = 0 THEN 1 ELSE 10 * Pow10(n - 1)

RECURSIVE Sum(_, _)
Sum(f, S) == IF S = {} THEN 0 ELSE LET x == CHOOSE x \in S : TRUE IN f[x] + Sum(f, S \ {x})

\* the number that the decimal digits line[i..j] write
Decimal(line, i, j) == Sum([k \in i..j |-> DigitVal(line[k]) * Pow10(j - k)], i..j)

\* C10: a line with at least two maximal digit runs parses to the first two
\* runs, in order of appearance, as integers, whatever surrounds them, later
\* runs ignored ("EMG1:10 EMG2:20 extra:30" gives (10, 20)); a line with fewer
\* runs parses to the failure sentinel.
C10_FirstTwoRuns ==
    Parsed =>
        LET runs == RunsOf(arg.line)
        IN  /\ Cardinality(runs) < 2 => res[1] = None
            /\ Cardinality(runs) >= 2 =>
                \E a \in runs, b \in runs :
                    /\ a[2] < b[1]
                    /\ \A r \in runs \ {a, b} : b[2] < r[1]
                    /\ res[1] = <<Decimal(arg.line, a[1], a[2]), Decimal(arg.line, b[1], b[2])>>
            /\ arg.line = LabelText => res[1] = <<10, 20>>

-----------------------------------------------------------------------------
(* Properties of the sessions *)

LoopPcs == {"while", "poll", "plot", "sleep"}
Recording == pc \in LoopPcs
Elapsed == now - overall_start
buffers == <<timestamps, emg1, emg2, rows, current_rep, notes>>

\* C1: while a session is recording, a fault raised by reading or parsing a
\* line or by redrawing the plot is reported and the loop goes on; no step of
\* the loop raises out of it, and the loop is left only by its test, when the
\* elapsed time is at least the total duration.
C1_FaultsKeepRecording ==
    [][Recording =>
        /\ exc' = "none"
        /\ gi' = gi /\ fig' = fig /\ ser' = ser
        /\ \/ pc' \in LoopPcs
           \/ /\ pc = "while"
              /\ pc' = "save"
              /\ now' - overall_start' >= TotalDuration(repetitions)
        /\ (pc' # pc /\ ev' \in {"read_fault", "draw_fault"}) =>
              /\ printed' = "error"
              /\ pc' = "while"
              /\ UNCHANGED <<buffers, overall_start, last_plot_time>>
      ]_vars

\* a redraw has just failed in a session that holds samples, and the loop is
\* at its test again
C1_Witness ==
    /\ pc = "while"
    /\ ev = "draw_fault"
    /\ printed = "error"
    /\ Len(rows) > 0
    /\ Elapsed > 0

\* C2: the buffer grows only by a parsable line; the loop test leaves the loop
\* when the elapsed time has reached the total duration, whatever was read;
\* a session that ends with an empty buffer prints the no-data warning, writes
\* no CSV file and no chart, raises nothing and returns to the for loop, which
\* goes on with the next gesture.
C2_EmptySession ==
    [][/\ (rows' # rows /\ rows' # <<>>) =>
              /\ pc = "poll"
              /\ inbuf # <<>>
              /\ Cardinality(RunsOf(raw_line)) >= 2
       /\ (pc = "while" /\ pc' # pc) =>
              (pc' = "save" <=> now' - overall_start >= TotalDuration(repetitions))
       /\ (pc = "save" /\ rows = <<>>) =>
              /\ printed' = "no_data"
              /\ pc' = "finally"
       /\ (pc \in {"save", "finally"} /\ rows = <<>> /\ exc = "none") =>
              /\ exc' = "none"
              /\ csv' = <<>>
              /\ png' = FALSE
              /\ pc' \in {"finally", "for"}
       /\ (pc = "for" /\ gi < NG) =>
              /\ pc' = "prompt"
              /\ gi' = gi + 1
      ]_vars

\* a session has run its full duration, ended with an empty buffer and
\* returned, and a gesture is left to record
C2_Witness ==
    /\ pc = "for"
    /\ ev = "finally"
    /\ exc = "none"
    /\ gi \in 1..(NG - 1)
    /\ rows = <<>>
    /\ overall_start # NoTime
    /\ Elapsed >= TotalDuration(repetitions)
    /\ csv = <<>>
    /\ png = FALSE

\* C3: once the transport is open, no fault of a session stops the for loop:
\* when the program ends, every gesture of the catalog had its session.
C3_EveryGestureRuns ==
    (pc = "done" /\ ser # "unopened") => gi = NG

\* C4: after the export of a non-empty buffer no exception is left to stop
\* the run, and if the CSV file was not written the chart was still saved.
C4_OutputsIndependent ==
    (pc = "finally" /\ Len(rows) > 0) =>
        /\ exc = "none"
        /\ csv = <<>> => png

\* the rows and the buffers hold the same samples, in time order
RowsMatchSamples ==
    /\ Len(rows) = Len(timestamps)
    /\ Len(emg1) = Len(timestamps)
    /\ Len(emg2) = Len(timestamps)
    /\ \A i \in 1..Len(rows) :
        /\ rows[i][2] = emg1[i]
        /\ rows[i][4] = emg2[i]
        /\ rows[i][6] = Min((timestamps[i] \div DurationUnits) + 1, repetitions)
    /\ NonDecreasing(timestamps)

\* C7: every sample read is appended as the last row, with the channel values
\* of its line and the elapsed time of its reading; rows change in no other
\* way during a session, so at export there is one row per sample, in the
\* order the lines were read, and the CSV file holds exactly these rows;
\* elapsed times are non-decreasing.
C7_OneRowPerSample ==
    [][/\ RowsMatchSamples'
       /\ (pc = "poll" /\ pc' = "plot" /\ inbuf # <<>>) =>
              LET ch == parse_dual_channel(raw_line)
              IN  /\ Len(rows') = Len(rows) + 1
                  /\ SubSeq(rows', 1, Len(rows)) = rows
                  /\ SubSeq(timestamps', 1, Len(rows)) = timestamps
                  /\ SubSeq(emg1', 1, Len(rows)) = emg1
                  /\ SubSeq(emg2', 1, Len(rows)) = emg2
                  /\ rows'[Len(rows')][2] = ch[1]
                  /\ rows'[Len(rows')][4] = ch[2]
                  /\ timestamps'[Len(rows')] = now' - overall_start
                  /\ inbuf' = Tail(inbuf)
       /\ rows' # rows => \/ pc = "poll" /\ pc' = "plot" /\ inbuf # <<>>
                          \/ pc = "for" /\ rows' = <<>>
       /\ (pc = "csv" /\ pc' = "chart") => csv' = rows /\ rows' = rows
      ]_vars

\* the CSV file of a session holds two samples read from different lines at
\* different times
C7_Witness ==
    /\ pc = "chart"
    /\ csv = rows
    /\ Len(rows) = 2
    /\ rows[1][2] # rows[2][2]
    /\ timestamps[1] < timestamps[2]

\* C9: a line read while recording that is empty, only whitespace or has fewer
\* than two digit runs adds no sample: the buffers, the rows, the current
\* repetition and the announcements are unchanged and the loop goes on.
C9_SkippedLine ==
    [][(/\ pc = "poll"
        /\ inbuf # <<>>
        /\ inbuf' = Tail(inbuf)
        /\ Cardinality(RunsOf(raw_line)) < 2) =>
              /\ UNCHANGED buffers
              /\ printed' # "rep"
              /\ exc' = "none"
              /\ pc' = "while"
      ]_vars

\* the line "abc" has been skipped in a session that holds a sample of a later
\* repetition
C9_Witness ==
    /\ pc = "while"
    /\ ev = "unparsable"
    /\ Len(rows) > 0
    /\ current_rep > 1

\* the line of whitespace has been skipped
C9_WitnessBlank ==
    /\ pc = "while"
    /\ ev = "blank"
    /\ Len(rows) > 0

-----------------------------------------------------------------------------
(* Properties of the run: the transport's lifecycle and the catalog *)

\* C11: once the transport is open it is closed exactly once however the run
\* ends, after the last session or when a fault of a session ends the run early:
\* ser.close() is called only from main's finally, at most once, the run is over
\* right after it, so no session reads the transport after the close, and a
\* failure of the close raises nothing and leaves the run ended.
C11_ClosedExactlyOnce ==
    [][/\ closes' \in {0, 1}
       /\ (pc' = "done" /\ ser' # "unopened") => closes' = 1
       /\ closes' = 1 => pc' = "done"
       /\ closes' # closes =>
              /\ pc = "close"
              /\ ser = "open"
              /\ ev \in {"for_done", "finally"}
              /\ ev = "for_done" => (gi = NG /\ exc = "none")
              /\ ev = "finally" => (exc = "raised" /\ fig = "closed")
              /\ exc' = exc
              /\ ser' \in {"open", "closed"}
              /\ ev' = "close_fault" => (ser' = ser /\ printed' = "")
       /\ closes = 1 => UNCHANGED vars
      ]_vars

\* a session ended the run early with a fault, and the close that followed
\* failed too
C11_Witness ==
    /\ pc = "done"
    /\ closes = 1
    /\ exc = "raised"
    /\ ev = "close_fault"
    /\ gi < NG

\* C12: when an interrupt has ended the run, the release path has run: if the
\* transport was opened, ser.close() was called, and no figure is left open.
C12_InterruptReleases ==
    (pc = "done" /\ exc = "interrupt") =>
        /\ ser # "unopened" => closes = 1
        /\ fig # "open"

\* C13: when opening the transport fails the run is over at once: the failure
\* is reported and was the program's only step, no session was started (no
\* prompt, no figure, no start time, nothing read or buffered), no file was
\* written and ser.close() was not called.
C13_OpenFailureEndsRun ==
    (ser = "unopened" /\ pc # "open") =>
        /\ pc = "done"
        /\ ev = "open_fault"
        /\ printed = "open_failed"
        /\ exc = "none"
        /\ gi = 0
        /\ fig = "none"
        /\ overall_start = NoTime
        /\ inbuf = <<>>
        /\ timestamps = <<>> /\ emg1 = <<>> /\ emg2 = <<>> /\ rows = <<>>
        /\ csv = <<>>
        /\ png = FALSE
        /\ closes = 0

\* the open has failed and the run is over
C13_Witness ==
    /\ pc = "done"
    /\ ser = "unopened"
    /\ printed = "open_failed"

\* C14: sessions are started by the for loop only, for the next entry of the
\* catalog each time, so in catalog order and never twice for one entry; when
\* the session of entry i+1 starts, the session of entry i has run its total
\* duration, its export has run (nothing to write, or the CSV file and the
\* chart written) and it has returned without an exception; a session starts
\* with empty buffers, a sample is appended only from a line read after the
\* session's start, and the CSV file holds the rows of its own session.
C14_CatalogOrder ==
    [][/\ gi' # gi =>
              /\ gi' = gi + 1
              /\ gi' \in 1..NG
              /\ pc = "for" /\ pc' = "prompt"
              /\ exc = "none"
              /\ timestamps' = <<>> /\ emg1' = <<>> /\ emg2' = <<>> /\ rows' = <<>>
              /\ notes' = <<>> /\ current_rep' = 1 /\ overall_start' = NoTime
              /\ gi >= 1 =>
                     /\ ev = "finally"
                     /\ fig = "closed"
                     /\ overall_start # NoTime
                     /\ now - overall_start >= TotalDuration(repetitions)
                     /\ rows = <<>> \/ (csv = rows /\ png)
       /\ (rows' # rows /\ rows' # <<>>) =>
              /\ overall_start # NoTime
              /\ stale = 0
              /\ timestamps'[Len(timestamps')] >= 0
              /\ Len(rows') = Len(rows) + 1
       /\ (csv' # csv /\ csv' # <<>>) => csv' = rows
      ]_vars

\* the session of the second gesture has read its first sample, and its
\* buffers hold that sample only
C14_Witness ==
    /\ gi = 2
    /\ pc = "plot"
    /\ ev = "sample"
    /\ Len(rows) = 1
    /\ Len(timestamps) = 1

-----------------------------------------------------------------------------
(* Properties of the recording loop: the live plot, the yield, the reads *)

\* C15: in the loop the plot is redrawn (the buffers forwarded to the figure
\* and a draw requested) only in an iteration whose clock reading is at least
\* the refresh interval past last_plot_time; in any other iteration the figure
\* is not touched and last_plot_time is unchanged.  last_plot_time changes
\* only by a redraw that succeeded, to the clock reading of that iteration, so
\* two successive redraws that succeeded are at least the refresh interval
\* apart, whatever was read in between.
C15_PlotThrottled ==
    [][Recording =>
        /\ (pc = "plot" /\ pc' # pc /\ exc' = "none") =>
               IF now' - last_plot_time >= PlotInterval
               THEN /\ ev' \in {"draw", "draw_fault"}
                    /\ ev' = "draw" => last_plot_time' = now'
                    /\ ev' = "draw_fault" => last_plot_time' = last_plot_time
               ELSE /\ ev' = "plot_skip"
                    /\ last_plot_time' = last_plot_time
        /\ (ev' \in {"draw", "draw_fault"} /\ <<pc, ev, now>> # <<pc', ev', now'>>) =>
               /\ pc = "plot"
               /\ now' - last_plot_time >= PlotInterval
        /\ last_plot_time' # last_plot_time =>
               /\ pc = "plot"
               /\ ev' = "draw"
               /\ last_plot_time' = now'
               /\ last_plot_time' - last_plot_time >= PlotInterval
        /\ fig' = fig
      ]_vars

\* a sample was read less than the refresh interval after the last redraw of
\* the session, and the plot was left as it was
C15_Witness ==
    /\ pc = "sleep"
    /\ ev = "plot_skip"
    /\ Len(rows) > 0
    /\ last_plot_time >= overall_start
    /\ now - last_plot_time < PlotInterval
    /\ now - overall_start = timestamps[Len(timestamps)]

\* C16: every iteration of the loop, whether it found no line, an empty line,
\* an unparsable line or a sample, goes on to the plot check of line 169.
C16_PlotCheckEveryIteration ==
    [][(/\ pc = "poll"
        /\ pc' # pc
        /\ ev' \in {"no_data", "blank", "unparsable", "sample"}) => pc' = "plot"
      ]_vars

\* C17: an iteration of the loop starts only right after the session's start
\* or right after the sleep of line 189 that ended the iteration before it.
C17_YieldEveryIteration ==
    [][(pc = "while" /\ pc' = "poll") => ev \in {"start", "sleep"}]_vars

\* C18: an iteration that polls the transport goes on to its plot check and
\* its sleep only when every line that was in the input buffer at the poll has
\* been read.
C18_DrainsAvailableLines ==
    [][(/\ pc = "poll"
        /\ pc' # pc
        /\ ev' \in {"no_data", "blank", "unparsable", "sample"}) => inbuf' = <<>>
      ]_vars

Aligned ==
    /\ Len(emg1) = Len(timestamps)
    /\ Len(emg2) = Len(timestamps)
    /\ Len(rows) = Len(timestamps)
    /\ \A i \in 1..Len(rows) :
        rows[i] = Row(timestamps[i], emg1[i], emg2[i], rows[i][6])

\* C20: wherever the buffers are read (the plot check and redraw of the loop,
\* the test for rows, the CSV export, the final chart), and after a fault was
\* caught in the loop, the time, channel-1 and channel-2 deques and the rows
\* have one length and entry i of each is the same sample; the CSV file
\* written holds all the rows.
C20_BuffersAligned ==
    /\ (pc \in {"plot", "sleep", "save", "csv", "chart"}) => Aligned
    /\ (ev \in {"read_fault", "draw_fault"}) => Aligned
    /\ (pc = "chart") => csv = rows

\* the plot was redrawn from buffers that hold two samples
C20_Witness ==
    /\ pc = "sleep"
    /\ ev = "draw"
    /\ Len(timestamps) = 2
    /\ Len(rows) = 2
    /\ last_plot_time = now

====
